---- MODULE Spec2Model ----
(***************************************************************************)
(* Retention and bookkeeping engine of the Raspberry Pi image backend      *)
(* (src/backend/main.py): the device registry, the image ledger, the       *)
(* upload directory and the HTTP handlers that change them.                *)
(*                                                                         *)
(* Strings are sequences of characters, so that str.startswith and the     *)
(* f-string that builds a filename are computed, not assumed.  Time is in  *)
(* microseconds, the resolution of datetime.now().  Every handler is an    *)
(* `async def` without an await, so it runs to completion on the event     *)
(* loop: one action per handler.  upload_image is also given line by line, *)
(* as a coroutine the event loop runs, to check that reading.              *)
(***************************************************************************)
EXTENDS Integers, Sequences, FiniteSets, TLC

VARIABLES
    device_status,   \* main.py:33  dict device_id -> [status, last_seen]
    image_metadata,  \* main.py:34  list of ImageMetadata
    disk,            \* the filesystem: path -> bytes of the file at that path
    clock,           \* the last reading datetime.now() returned
    response,        \* the response of the last request served
    task             \* the upload_image coroutine that has started and not
                     \* returned, when it is followed line by line

vars == <<device_status, image_metadata, disk, clock, response, task>>

-----------------------------------------------------------------------------
(* Program constants *)

KEEP == 20                      \* images kept per device
EXPIRY_MINUTES == 5             \* timedelta(minutes=5)
MICROS_PER_SECOND == 1000000    \* datetime resolution against "%S"
UPLOAD_DIR == <<"uploads">>

(* Bounds of the model *)

MaxSeconds == 21     \* whole seconds the clock may run past boot (retention runs)
MaxMicros == 1       \* sub-second microseconds the clock may accumulate
BurstSeconds == 1    \* seconds after boot in which requests come microseconds apart
MaxForeign == 0      \* records of other devices present when a device uploads
MaxSmall == 2        \* ledger length in the whole-system runs
MaxExpiries == 2     \* expiry periods the clock may run (registry runs)
MaxBurst == 21       \* microseconds past a whole second in the burst runs
MaxOther == 1        \* uploads of the second device in the burst runs

-----------------------------------------------------------------------------
(* Inputs *)

Pi == <<"p", "i">>
Pi2 == <<"p", "i", "-", "2">>
DeviceIds == {Pi, Pi2}

\* An optional query parameter: <<>> when absent (None), <<s>> when given.
Missing == << >>
Given(s) == <<s>>
EmptyStr == << >>
UploadQueries == {Missing, Given(EmptyStr)} \cup {Given(d) : d \in DeviceIds}

Statuses == {"online", "offline", "error"}

BootTime == 1 * MICROS_PER_SECOND

-----------------------------------------------------------------------------
(* Strings, paths, the filesystem *)

\* str.startswith
StartsWith(s, prefix) ==
    /\ Len(s) >= Len(prefix)
    /\ SubSeq(s, 1, Len(prefix)) = prefix

Strftime_Micros(t) == <<ToString(t)>>

\* datetime.strftime("%Y%m%d_%H%M%S"): the reading truncated to whole seconds,
\* one token per second.
Strftime(t) == <<ToString(t \div MICROS_PER_SECOND)>>

\* f"{device_id}-{timestamp}.png"
Filename(device_id, t) == device_id \o <<"-">> \o Strftime(t) \o <<".png">>

\* os.path.join(UPLOAD_DIR, filename)
Join(dir, filename) == dir \o <<"/">> \o filename

\* os.listdir(dir): the names of the files under dir
ListDir(fs, dir) ==
    { SubSeq(p, Len(dir) + 2, Len(p)) : p \in {x \in DOMAIN fs : StartsWith(x, dir \o <<"/">>)} }

\* open(path, "wb") + shutil.copyfileobj: creates or overwrites
\* The file a path names: the filesystem skips the "." components of a path,
\* so "uploads/./x" and "uploads/x" are one file.  `disk` is keyed by the
\* resolved path.
RECURSIVE Normalize(_, _)
Normalize(path, start) ==
    IF path = << >> THEN << >>
    ELSE IF start /\ Len(path) >= 2 /\ path[1] = "." /\ path[2] = "/"
         THEN Normalize(SubSeq(path, 3, Len(path)), TRUE)
         ELSE <<Head(path)>> \o Normalize(Tail(path), Head(path) = "/")

Resolve(path) == Normalize(path, TRUE)

WriteFile(fs, path, bytes) ==
    LET file == Resolve(path)
    IN  [p \in (DOMAIN fs) \cup {file} |-> IF p = file THEN bytes ELSE fs[p]]

\* os.remove(path) under the set `denied` of paths the OS refuses to unlink
OsRemoveOutcome(fs, path, denied) ==
    LET file == Resolve(path)
    IN  IF file \notin DOMAIN fs THEN "FileNotFoundError"
        ELSE IF file \in denied THEN "PermissionError"
        ELSE "ok"

Unlink(fs, path) == [p \in (DOMAIN fs) \ {Resolve(path)} |-> fs[p]]

-----------------------------------------------------------------------------
(* Lists of ImageMetadata *)

\* [img for img in image_metadata if img.device_id == device_id]
DeviceImages(meta, device_id) == SelectSeq(meta, LAMBDA img : img.device_id = device_id)

Count(meta, device_id) == Len(DeviceImages(meta, device_id))

\* list.remove(x): drops the first element equal to x
RECURSIVE ListRemove(_, _)
ListRemove(list, x) ==
    IF list = << >> THEN << >>
    ELSE IF Head(list) = x THEN Tail(list)
    ELSE <<Head(list)>> \o ListRemove(Tail(list), x)

\* insertion of x behind every element that sorts before it or ties with it
RECURSIVE InsertAscending(_, _)
InsertAscending(sorted, x) ==
    IF sorted = << >> THEN <<x>>
    ELSE IF Head(sorted).upload_time <= x.upload_time
         THEN <<Head(sorted)>> \o InsertAscending(Tail(sorted), x)
         ELSE <<x>> \o sorted

\* list.sort(key=lambda x: x.upload_time): stable, ascending
RECURSIVE SortAscending(_)
SortAscending(list) ==
    IF list = << >> THEN << >>
    ELSE InsertAscending(SortAscending(SubSeq(list, 1, Len(list) - 1)), list[Len(list)])

\* device_images[:-20]
AllButLastKeep(list) ==
    IF Len(list) > KEEP THEN SubSeq(list, 1, Len(list) - KEEP) ELSE << >>

-----------------------------------------------------------------------------
(* Responses *)

NoDevices == [d \in {} |-> [status |-> "", last_seen |-> 0]]

\* What the last request was and what it got: the handler, the device_id (and,
\* for a heartbeat, the status) it was sent, the HTTP status, the fields of the
\* JSON body, and the exception that left the handler when the status is 500.
\* Of the request also the uploaded bytes and the limit of a listing; of the
\* body also the listing and the three counts of /api/status; of an exception
\* also the call it came from (`where`, the innermost frame of the traceback).
Response(op, code, q) ==
    [op |-> op, status_code |-> code, device_id |-> q, status |-> "",
     filename |-> << >>, upload_time |-> 0, removed_count |-> 0,
     devices |-> NoDevices, raised |-> "",
     image |-> "", limit |-> 0, images |-> << >>, where |-> "",
     online_devices |-> 0, total_devices |-> 0, total_images |-> 0]

Raised(op, q, exception) == [Response(op, 500, q) EXCEPT !.raised = exception]

RaisedAt(op, q, exception, where) ==
    [Raised(op, q, exception) EXCEPT !.where = where]

-----------------------------------------------------------------------------
(* POST /api/upload-image *)

\* `not device_id`: the parameter is absent (None) or the empty string
Falsy_NoneOnly(q) == q = Missing
Falsy(q) == q = Missing \/ q[1] = EmptyStr

\* `except FileNotFoundError: pass`
ExceptFileNotFound_Nothing(outcome) == FALSE
ExceptFileNotFound(outcome) == outcome = "FileNotFoundError"

\* The loop of lines 116-121 over the records `old`, oldest first.  os.remove
\* comes first and list.remove is inside the same try: FileNotFoundError skips
\* the rest of the iteration, any other error leaves the handler.
RECURSIVE EvictLoop(_, _, _, _)
EvictLoop(old, meta, fs, denied) ==
    IF old = << >> THEN [meta |-> meta, fs |-> fs, raised |-> ""]
    ELSE LET old_img == Head(old)
             outcome == OsRemoveOutcome(fs, old_img.file_path, denied)
         IN  CASE outcome = "ok" ->
                    EvictLoop(Tail(old), ListRemove(meta, old_img),
                              Unlink(fs, old_img.file_path), denied)
               [] ExceptFileNotFound(outcome) ->
                    EvictLoop(Tail(old), meta, fs, denied)
               [] OTHER ->
                    [meta |-> meta, fs |-> fs, raised |-> outcome]

\* Lines 111-121: keep only the last 20 images of the device
EnforceCap(meta, fs, device_id, denied) ==
    LET device_images == DeviceImages(meta, device_id)
    IN  IF Len(device_images) > KEEP
        THEN EvictLoop(AllButLastKeep(SortAscending(device_images)), meta, fs, denied)
        ELSE [meta |-> meta, fs |-> fs, raised |-> ""]

\* The ledger at the time open() is called (line 99): the record of this upload
\* is built and appended only after the bytes are written (lines 103-109).
LedgerAtOpen_Appended(meta, metadata) == Append(meta, metadata)

LedgerAtOpen(meta, metadata) == meta

\* q: the device_id query parameter; image: the uploaded bytes; t1, t2: the
\* readings of datetime.now() at lines 94 and 106; denied: the paths on which
\* the OS refuses open-for-write and unlink during this request.
upload_image(q, image, t1, t2, denied) ==
    IF Falsy(q)
    THEN /\ response' = [Response("upload_image", 400, q) EXCEPT !.image = image]
         /\ UNCHANGED <<device_status, image_metadata, disk, clock, task>>
    ELSE LET device_id == q[1]
             filename == Filename(device_id, t1)
             file_path == Join(UPLOAD_DIR, filename)
             metadata == [device_id |-> device_id, filename |-> filename,
                          upload_time |-> t2, file_path |-> file_path]
         IN  IF Resolve(file_path) \in denied
             THEN \* open() raises: nothing written, nothing appended
                  /\ clock' = t1
                  /\ response' = [RaisedAt("upload_image", q, "PermissionError", "open")
                                    EXCEPT !.image = image]
                  /\ image_metadata' = LedgerAtOpen(image_metadata, metadata)
                  /\ UNCHANGED <<device_status, disk, task>>
             ELSE LET appended == Append(image_metadata, metadata)
                      written == WriteFile(disk, file_path, image)
                      res == EnforceCap(appended, written, device_id, denied)
                  IN  /\ image_metadata' = res.meta
                      /\ disk' = res.fs
                      /\ clock' = t2
                      /\ response' =
                            IF res.raised # ""
                            THEN [RaisedAt("upload_image", q, res.raised, "os.remove")
                                    EXCEPT !.image = image]
                            ELSE [Response("upload_image", 200, q)
                                    EXCEPT !.filename = filename, !.image = image]
                      /\ UNCHANGED <<device_status, task>>

-----------------------------------------------------------------------------
(* POST /api/upload-image, line by line.  The coroutine's position is the   *)
(* statement it executes next; `old` is what is left of device_images[:-20] *)
(* in the loop of line 116.                                                 *)

NoTask == [pc |-> "idle", q |-> Missing, filename |-> << >>, image |-> "", old |-> << >>]

\* Whether the coroutine hands control back to the event loop at a position:
\* the body of upload_image (lines 87-123) has no await expression, and an
\* `async def` endpoint runs on the event loop itself, not in a worker thread.
Awaits_BeforeCap(pc) == pc = "cap"

Awaits(pc) == FALSE

\* The event loop starts the handler of another request only when no coroutine
\* is running: none has started, or the one that has is suspended in an await.
LoopFree == task.pc = "idle" \/ Awaits(task.pc)

\* Lines 89-109: validation, filename, write, append
upload_image_store(q, image, t1, t2) ==
    /\ task.pc = "idle"
    /\ IF Falsy(q)
       THEN /\ response' = [Response("upload_image", 400, q) EXCEPT !.image = image]
            /\ UNCHANGED <<device_status, image_metadata, disk, clock, task>>
       ELSE LET device_id == q[1]
                filename == Filename(device_id, t1)
                file_path == Join(UPLOAD_DIR, filename)
                metadata == [device_id |-> device_id, filename |-> filename,
                             upload_time |-> t2, file_path |-> file_path]
            IN  /\ disk' = WriteFile(disk, file_path, image)
                /\ image_metadata' = Append(image_metadata, metadata)
                /\ clock' = t2
                /\ task' = [pc |-> "cap", q |-> q, filename |-> filename,
                            image |-> image, old |-> << >>]
                /\ UNCHANGED <<device_status, response>>

\* Lines 112-116: the device's records, the test of the cap, the sort and the
\* slice the loop iterates over
upload_image_cap ==
    /\ task.pc = "cap"
    /\ LET device_images == DeviceImages(image_metadata, task.q[1])
       IN  task' = IF Len(device_images) > KEEP
                   THEN [task EXCEPT !.pc = "evict",
                                     !.old = AllButLastKeep(SortAscending(device_images))]
                   ELSE [task EXCEPT !.pc = "return"]
    /\ UNCHANGED <<device_status, image_metadata, disk, clock, response>>

\* Lines 116-121: one iteration of the loop, or its end
upload_image_evict ==
    /\ task.pc = "evict"
    /\ IF task.old = << >>
       THEN /\ task' = [task EXCEPT !.pc = "return"]
            /\ UNCHANGED <<image_metadata, disk>>
       ELSE LET old_img == Head(task.old)
                outcome == OsRemoveOutcome(disk, old_img.file_path, {})
            IN  /\ task' = [task EXCEPT !.old = Tail(task.old)]
                /\ IF outcome = "ok"
                   THEN /\ disk' = Unlink(disk, old_img.file_path)
                        /\ image_metadata' = ListRemove(image_metadata, old_img)
                   ELSE UNCHANGED <<image_metadata, disk>>
    /\ UNCHANGED <<device_status, clock, response>>

\* Line 123
upload_image_return ==
    /\ task.pc = "return"
    /\ response' = [Response("upload_image", 200, task.q)
                      EXCEPT !.filename = task.filename, !.image = task.image]
    /\ task' = NoTask
    /\ UNCHANGED <<device_status, image_metadata, disk, clock>>

-----------------------------------------------------------------------------
(* POST /api/cleanup-orphaned *)

OrphanedFiles_NoLedger(meta, fs, device_id) ==
    { filename \in ListDir(fs, UPLOAD_DIR) : StartsWith(filename, device_id \o <<"-">>) }

\* server_files - metadata_files, narrowed by the startswith test of line 169
OrphanedFiles(meta, fs, device_id) ==
    LET server_files == ListDir(fs, UPLOAD_DIR)
        metadata_files == { meta[i].filename :
                              i \in {j \in DOMAIN meta : meta[j].device_id = device_id} }
    IN  { filename \in server_files \ metadata_files :
            StartsWith(filename, device_id \o <<"-">>) }

\* os.remove over the orphaned paths that are unlinked
RemoveAll_Nothing(fs, paths) == fs
RemoveAll(fs, paths) == [p \in (DOMAIN fs) \ paths |-> fs[p]]

\* The set is iterated in an order the program does not choose.  With no
\* refused path every orphan is unlinked; otherwise the loop stops at the first
\* refused path it meets, having unlinked any of the others before it.
cleanup_orphaned(device_id, denied) ==
    LET orphaned == { Join(UPLOAD_DIR, f) : f \in OrphanedFiles(image_metadata, disk, device_id) }
        refused == orphaned \cap denied
    IN  /\ IF refused = {}
           THEN /\ disk' = RemoveAll(disk, orphaned)
                /\ response' = [Response("cleanup_orphaned", 200, Given(device_id))
                                  EXCEPT !.removed_count = Cardinality(orphaned)]
           ELSE \E done \in SUBSET (orphaned \ refused) :
                /\ disk' = RemoveAll(disk, done)
                /\ response' = RaisedAt("cleanup_orphaned", Given(device_id),
                                        "PermissionError", "os.remove")
        /\ UNCHANGED <<device_status, image_metadata, clock, task>>

-----------------------------------------------------------------------------
(* GET /api/images/{device_id}/latest *)

\* max(list, key=lambda x: x.upload_time): the first element no other exceeds
RECURSIVE MaxOf(_)
MaxOf(list) ==
    IF Len(list) = 1 THEN list[1]
    ELSE LET best == MaxOf(SubSeq(list, 1, Len(list) - 1))
         IN  IF list[Len(list)].upload_time > best.upload_time
             THEN list[Len(list)] ELSE best

MaxByTime_LastInserted(list) == list[Len(list)]
MaxByTime(list) == MaxOf(list)

get_latest_image(device_id) ==
    LET device_images == DeviceImages(image_metadata, device_id)
    IN  /\ response' =
             IF device_images = << >>
             THEN Response("get_latest_image", 404, Given(device_id))
             ELSE LET latest_image == MaxByTime(device_images)
                  IN  [Response("get_latest_image", 200, Given(device_id))
                         EXCEPT !.filename = latest_image.filename,
                                !.upload_time = latest_image.upload_time]
        /\ UNCHANGED <<device_status, image_metadata, disk, clock, task>>

-----------------------------------------------------------------------------
(* GET /api/images/{device_id} *)

\* insertion of x behind every element that sorts before it or ties with it,
\* the order being descending
RECURSIVE InsertDescending(_, _)
InsertDescending(sorted, x) ==
    IF sorted = << >> THEN <<x>>
    ELSE IF Head(sorted).upload_time >= x.upload_time
         THEN <<Head(sorted)>> \o InsertDescending(Tail(sorted), x)
         ELSE <<x>> \o sorted

\* list.sort(key=lambda x: x.upload_time, reverse=True): stable, descending
RECURSIVE SortDescending(_)
SortDescending(list) ==
    IF list = << >> THEN << >>
    ELSE InsertDescending(SortDescending(SubSeq(list, 1, Len(list) - 1)), list[Len(list)])

\* list[:limit]: a negative limit counts from the end
SliceTo(list, limit) ==
    IF limit >= 0
    THEN SubSeq(list, 1, IF limit < Len(list) THEN limit ELSE Len(list))
    ELSE SubSeq(list, 1, Len(list) + limit)

\* Lines 134-138
WithUrl(img) ==
    [filename |-> img.filename, upload_time |-> img.upload_time,
     url |-> <<"/static/">> \o img.filename]

get_device_images(device_id, limit) ==
    LET device_images == SortDescending(DeviceImages(image_metadata, device_id))
        shown == SliceTo(device_images, limit)
    IN  /\ response' = [Response("get_device_images", 200, Given(device_id))
                          EXCEPT !.limit = limit,
                                 !.images = [i \in DOMAIN shown |-> WithUrl(shown[i])]]
        /\ UNCHANGED <<device_status, image_metadata, disk, clock, task>>

-----------------------------------------------------------------------------
(* POST /api/heartbeat, GET /api/devices *)

\* device_status[key] = value
SetItem_KeepExisting(registry, key, value) ==
    [d \in (DOMAIN registry) \cup {key} |->
        IF d \in DOMAIN registry THEN registry[d] ELSE value]
SetItem(registry, key, value) ==
    [d \in (DOMAIN registry) \cup {key} |-> IF d = key THEN value ELSE registry[d]]

\* t: the reading of datetime.now() at line 67
heartbeat(device_id, status, t) ==
    /\ device_status' = SetItem(device_status, device_id,
                                [status |-> status, last_seen |-> t])
    /\ clock' = t
    /\ response' = [Response("heartbeat", 200, Given(device_id)) EXCEPT !.status = status]
    /\ UNCHANGED <<image_metadata, disk, task>>

\* timedelta(minutes=5)
ExpiryDelta == EXPIRY_MINUTES * 60 * MICROS_PER_SECOND

\* Lines 75-80
DevicesToRemove_AnyStatus(registry, t) ==
    { d \in DOMAIN registry : registry[d].last_seen < t - ExpiryDelta }
DevicesToRemove_OfflineAnyAge(registry, t) ==
    { d \in DOMAIN registry : registry[d].status = "offline" }
DevicesToRemove(registry, t) ==
    LET cutoff_time == t - ExpiryDelta
    IN  { d \in DOMAIN registry :
            registry[d].status = "offline" /\ registry[d].last_seen < cutoff_time }

\* t: the reading of datetime.now() at line 75
get_devices(t) ==
    LET devices_to_remove == DevicesToRemove(device_status, t)
        remaining == [d \in (DOMAIN device_status) \ devices_to_remove |-> device_status[d]]
    IN  /\ device_status' = remaining
        /\ clock' = t
        /\ response' = [Response("get_devices", 200, Missing) EXCEPT !.devices = remaining]
        /\ UNCHANGED <<image_metadata, disk, task>>

-----------------------------------------------------------------------------
(* GET /api/status *)

\* t: the reading of datetime.now() at line 188
get_system_status(t) ==
    /\ response' =
          [Response("get_system_status", 200, Missing)
             EXCEPT !.online_devices =
                        Cardinality({d \in DOMAIN device_status :
                                        device_status[d].status = "online"}),
                    !.total_devices = Cardinality(DOMAIN device_status),
                    !.total_images = Len(image_metadata)]
    /\ clock' = t
    /\ UNCHANGED <<device_status, image_metadata, disk, task>>

-----------------------------------------------------------------------------
(* The state after start-up.  The registry and the ledger are empty; the    *)
(* upload directory is kept across restarts, so it may hold files an        *)
(* earlier run stored (in the second before this one booted).               *)

OldBytes == "old"
Leftovers == { Join(UPLOAD_DIR, Filename(Pi2, BootTime - MICROS_PER_SECOND)) }

Init ==
    /\ device_status = NoDevices
    /\ image_metadata = << >>
    /\ \E kept \in SUBSET Leftovers : disk = [p \in kept |-> OldBytes]
    /\ clock = BootTime
    /\ response = Response("start", 0, Missing)
    /\ task = NoTask

-----------------------------------------------------------------------------
(* Retention runs: uploads and reconciliation on a clock that moves forward *)
(* between uploads, long enough for the cap to be enforced several times.   *)

Micros(t) == t % MICROS_PER_SECOND
Seconds(t) == t \div MICROS_PER_SECOND

\* Readings datetime.now() may return after the reading `t`: a second later,
\* or, in the burst right after boot, `near` microseconds later.
ClockAfter(t, near) ==
    LET gaps == {MICROS_PER_SECOND} \cup
                (IF Seconds(t) - Seconds(BootTime) <= BurstSeconds THEN near ELSE {})
    IN  { u \in {t + g : g \in gaps} :
            /\ Micros(u) <= MaxMicros
            /\ Seconds(u) - Seconds(BootTime) <= MaxSeconds }

ForeignCount(device_id) == Len(image_metadata) - Len(DeviceImages(image_metadata, device_id))

\* The file the OS may refuse to a request: the first one the device stores
FirstFile(device_id) == Join(UPLOAD_DIR, Filename(device_id, BootTime + MICROS_PER_SECOND))

InitClean == Init /\ DOMAIN disk = {}

Upload ==
    \E device_id \in {d \in DeviceIds : ForeignCount(d) <= MaxForeign} :
    \E t1 \in ClockAfter(clock, {1}) :
    \E t2 \in {u \in {t1} \cup ClockAfter(t1, {1}) : Seconds(u) = Seconds(t1)} :
    \E denied \in SUBSET {FirstFile(device_id)} :
        upload_image(Given(device_id), "img", t1, t2, denied)

Cleanup == \E device_id \in DeviceIds : cleanup_orphaned(device_id, {})

Next == Upload \/ Cleanup

Spec == InitClean /\ [][Next]_vars

-----------------------------------------------------------------------------
(* Registry runs: heartbeats and the expiry sweep on a clock that moves     *)
(* forward by nothing, by a microsecond or by the expiry period.            *)

RegistryClockAfter(t) ==
    { u \in {t, t + 1, t + ExpiryDelta} :
        /\ Micros(u) <= MaxMicros
        /\ u - BootTime <= MaxExpiries * ExpiryDelta + MaxMicros }

Heartbeat ==
    \E device_id \in DeviceIds, status \in Statuses, t \in RegistryClockAfter(clock) :
        heartbeat(device_id, status, t)

GetDevices == \E t \in RegistryClockAfter(clock) : get_devices(t)

NextRegistry == Heartbeat \/ GetDevices

SpecRegistry == InitClean /\ [][NextRegistry]_vars

-----------------------------------------------------------------------------
(* Whole-system runs: every handler, a short ledger, and a wall clock that  *)
(* may be set back between two readings.                                    *)

Instants == {BootTime, BootTime + 1, BootTime + MICROS_PER_SECOND}

StoredFiles == { Join(UPLOAD_DIR, Filename(d, t)) : d \in DeviceIds, t \in Instants }

AnyUpload ==
    \E q \in UploadQueries, t1 \in Instants, denied \in {{}, StoredFiles} :
    \E t2 \in {u \in Instants : u >= t1 /\ Seconds(u) = Seconds(t1)} :
        /\ Len(image_metadata) < MaxSmall
        /\ upload_image(q, "img", t1, t2, denied)

AnyCleanup ==
    \E device_id \in DeviceIds, denied \in {{}} \cup {{p} : p \in Leftovers} :
        cleanup_orphaned(device_id, denied)

AnyLatest == \E device_id \in DeviceIds : get_latest_image(device_id)

AnyHeartbeat ==
    \E device_id \in DeviceIds, status \in {"online"} :
        heartbeat(device_id, status, clock)

AnyGetDevices == get_devices(clock)

NextAll == AnyUpload \/ AnyCleanup \/ AnyLatest \/ AnyHeartbeat \/ AnyGetDevices

SpecAll == Init /\ [][NextAll]_vars

-----------------------------------------------------------------------------
(* Query runs: uploads of two different images on a wall clock that may be  *)
(* set back, and the three read-only handlers.                              *)

Images == {"img", "img2"}
Limits == {-1, 0, 1, 20}

QueryUpload ==
    \E device_id \in DeviceIds, image \in Images, t1 \in Instants :
    \E t2 \in {u \in Instants : u >= t1 /\ Seconds(u) = Seconds(t1)} :
        /\ Len(image_metadata) < MaxSmall + 1
        /\ upload_image(Given(device_id), image, t1, t2, {})

QueryImages ==
    \E device_id \in DeviceIds, limit \in Limits : get_device_images(device_id, limit)

QueryLatest == \E device_id \in DeviceIds : get_latest_image(device_id)

QueryStatus == get_system_status(clock)

NextQuery == QueryUpload \/ QueryImages \/ QueryLatest \/ QueryStatus

SpecQuery == InitClean /\ [][NextQuery]_vars

-----------------------------------------------------------------------------
(* Lifecycle runs: the registry runs together with the handlers that do not *)
(* write the registry, for one device and a ledger of at most one record;   *)
(* these handlers run at the time of the last clock reading.                *)

LifeUpload ==
    /\ image_metadata = << >>
    /\ upload_image(Given(Pi), "img", clock, clock, {})

LifeCleanup == cleanup_orphaned(Pi, {})

LifeImages == get_device_images(Pi, KEEP)

LifeLatest == get_latest_image(Pi)

LifeStatus == get_system_status(clock)

NextLifecycle ==
    \/ Heartbeat
    \/ GetDevices
    \/ LifeUpload
    \/ LifeCleanup
    \/ LifeImages
    \/ LifeLatest
    \/ LifeStatus

SpecLifecycle == Init /\ [][NextLifecycle]_vars

-----------------------------------------------------------------------------
(* Event-loop runs: uploads of one device, a second apart, each followed    *)
(* line by line or served in one piece, among requests for the other        *)
(* handlers that read or write the ledger, whenever the event loop is free. *)

NextSecond == { t \in {clock + MICROS_PER_SECOND} : Seconds(t) - Seconds(BootTime) <= MaxSeconds }

LoopStore == \E t \in NextSecond : upload_image_store(Given(Pi), "img", t, t)

LoopCap == upload_image_cap

LoopEvict == upload_image_evict

LoopReturn == upload_image_return

LoopUpload ==
    /\ LoopFree
    /\ \E t \in NextSecond : upload_image(Given(Pi), "img", t, t, {})

LoopCleanup == LoopFree /\ cleanup_orphaned(Pi, {})

LoopImages == LoopFree /\ get_device_images(Pi, KEEP + 1)

LoopStatus == LoopFree /\ get_system_status(clock)

NextLoop ==
    \/ LoopStore
    \/ LoopCap
    \/ LoopEvict
    \/ LoopReturn
    \/ LoopUpload
    \/ LoopCleanup
    \/ LoopImages
    \/ LoopStatus

SpecLoop == InitClean /\ [][NextLoop]_vars

-----------------------------------------------------------------------------
(* Burst runs: one device uploads a microsecond after the last request or   *)
(* at the start of the next second, so that more uploads than the cap fall  *)
(* into one second; before its first upload another device may upload, and  *)
(* before any upload a device may send a heartbeat.                         *)

BurstClockAfter(t) ==
    { u \in {t + 1, (Seconds(t) + 1) * MICROS_PER_SECOND} :
        /\ Micros(u) <= MaxBurst
        /\ Seconds(u) - Seconds(BootTime) <= BurstSeconds }

BurstUpload ==
    \E t \in BurstClockAfter(clock) : upload_image(Given(Pi), "img", t, t, {})

\* A device id that starts with a "." path component
DotPi == <<".", "/">> \o Pi

BurstDevices == DeviceIds \cup {DotPi}

BurstOther ==
    /\ Count(image_metadata, Pi) = 0
    /\ Len(image_metadata) < MaxOther
    /\ \E device_id \in BurstDevices \ {Pi}, t \in BurstClockAfter(clock) :
          upload_image(Given(device_id), "img2", t, t, {})

BurstHeartbeat ==
    /\ image_metadata = << >>
    /\ \E device_id \in DeviceIds : heartbeat(device_id, "online", clock)

NextBurst == BurstUpload \/ BurstOther \/ BurstHeartbeat

SpecBurst == InitClean /\ [][NextBurst]_vars

-----------------------------------------------------------------------------
(* Properties of the retention runs *)

Range(list) == { list[i] : i \in DOMAIN list }

Exists(path) == Resolve(path) \in DOMAIN disk

UploadReturned(device_id) ==
    /\ response.op = "upload_image"
    /\ response.status_code = 200
    /\ response.device_id = Given(device_id)

\* C1: when an upload_image call returns, no device has more than 20 records
\* in the ledger.
C1_CapInvariant ==
    response.op = "upload_image" /\ response.status_code = 200
        => \A d \in DeviceIds : Count(image_metadata, d) <= KEEP

StrictlyIncreasing(list) ==
    \A i, j \in DOMAIN list : i < j => list[i].upload_time < list[j].upload_time

\* The records of the device right after the append of line 109, given the
\* ledger before the call and the response of the call.
AfterAppend(device_id) ==
    Append(DeviceImages(image_metadata, device_id),
           [device_id |-> device_id, filename |-> response'.filename,
            upload_time |-> clock', file_path |-> Join(UPLOAD_DIR, response'.filename)])

\* C2: an upload that brings a device above 20 records of strictly increasing
\* upload_time leaves exactly the 20 newest of them in the ledger, and the
\* blob of every other one is gone from the upload directory.
C2_OldestFirstEviction ==
    [][\A d \in DeviceIds :
         (/\ UploadReturned(d)'
          /\ Len(AfterAppend(d)) > KEEP
          /\ StrictlyIncreasing(AfterAppend(d)))
         => LET all == AfterAppend(d)
                n == Len(all)
            IN  /\ DeviceImages(image_metadata', d) = SubSeq(all, n - KEEP + 1, n)
                /\ \A i \in 1..(n - KEEP) :
                      /\ all[i] \notin Range(image_metadata')
                      /\ all[i].file_path \notin DOMAIN disk'
      ]_vars

\* C3: every record of the ledger has its blob: a file exists at its file_path.
C3_LedgerBlobConsistency ==
    \A i \in DOMAIN image_metadata : Exists(image_metadata[i].file_path)

\* The blobs upload_image stores for a device: the files its filename
\* derivation can name.
StoredFor(device_id) ==
    { Join(UPLOAD_DIR, Filename(device_id, sec * MICROS_PER_SECOND)) :
         sec \in 0..(Seconds(BootTime) + MaxSeconds) }

\* C4: a cleanup_orphaned call for one device deletes no blob that an upload
\* stored for another device.
C4_ReconciliationScoping ==
    [][\A a \in DeviceIds :
         (response'.op = "cleanup_orphaned" /\ response'.device_id = Given(a))
         => \A b \in DeviceIds \ {a} :
               ((DOMAIN disk) \ (DOMAIN disk')) \cap StoredFor(b) = {}
      ]_vars

\* C5: a cleanup_orphaned call that directly follows a completed
\* cleanup_orphaned call for the same device removes nothing: it returns
\* removed_count = 0 and the upload directory is as it was.
C5_ReconciliationIdempotent ==
    [][(/\ response.op = "cleanup_orphaned"
        /\ response.status_code = 200
        /\ response'.op = "cleanup_orphaned"
        /\ response'.device_id = response.device_id)
       => (/\ response'.status_code = 200
           /\ response'.removed_count = 0
           /\ disk' = disk)
      ]_vars

\* A first cleanup call has just removed files: the call the second one follows.
C5_Witness ==
    /\ response.op = "cleanup_orphaned"
    /\ response.status_code = 200
    /\ response.removed_count > 0
    /\ DOMAIN disk # {}

\* The records cap enforcement goes through when upload_image runs for the
\* device in this state (the new record is the newest, so it is none of them).
EvictionCandidates(device_id) ==
    LET sorted == SortAscending(DeviceImages(image_metadata, device_id))
    IN  SubSeq(sorted, 1, Len(sorted) + 1 - KEEP)

\* C9: a blob that is already absent when cap enforcement or reconciliation
\* goes to delete it does not fail the call: FileNotFoundError never leaves
\* upload_image or cleanup_orphaned, and an upload whose eviction meets an
\* absent blob returns 200 unless the OS refused another operation of it.
C9_TolerantDelete ==
    /\ [](response.op \in {"upload_image", "cleanup_orphaned"}
            => /\ response.raised # "FileNotFoundError"
               /\ (response.status_code = 500 => response.raised = "PermissionError"))
    /\ [][\A d \in DeviceIds :
            (/\ response'.op = "upload_image"
             /\ response'.device_id = Given(d)
             /\ response'.raised # "PermissionError"
             /\ Count(image_metadata, d) >= KEEP
             /\ \E i \in DOMAIN image_metadata :
                   /\ ~Exists(image_metadata[i].file_path)
                   /\ image_metadata[i] \in Range(EvictionCandidates(d)))
            => response'.status_code = 200
         ]_vars

\* An upload has returned 200 although a record it went to evict had no blob
\* (the record is still there, above the cap).
C9_Witness ==
    \E d \in DeviceIds :
        /\ UploadReturned(d)
        /\ Count(image_metadata, d) > KEEP
        /\ \E i \in DOMAIN image_metadata :
              /\ image_metadata[i].device_id = d
              /\ ~Exists(image_metadata[i].file_path)

-----------------------------------------------------------------------------
(* Properties of the registry runs *)

Stale(record, now) == record.last_seen < now - ExpiryDelta

\* C6: after a get_devices call neither its result nor the registry holds an
\* "offline" record last seen more than 5 minutes before the call, and every
\* record that was not such a record is still there, unchanged.
C6_ExpirySweep ==
    [][response'.op = "get_devices"
       => /\ response'.devices = device_status'
          /\ \A d \in DOMAIN device_status' :
                ~(device_status'[d].status = "offline" /\ Stale(device_status'[d], clock'))
          /\ \A d \in DOMAIN device_status :
                (device_status[d].status # "offline" \/ ~Stale(device_status[d], clock'))
                => (d \in DOMAIN device_status' /\ device_status'[d] = device_status[d])
      ]_vars

\* get_devices has just returned with a record in the registry that is not
\* offline and was last seen more than 5 minutes ago, the other device absent.
C6_Witness ==
    /\ response.op = "get_devices"
    /\ Cardinality(DOMAIN device_status) < Cardinality(DeviceIds)
    /\ \E d \in DOMAIN device_status :
          device_status[d].status # "offline" /\ Stale(device_status[d], clock)

\* C10: after a heartbeat the registry's record of that device holds the
\* status and the timestamp of this heartbeat, and the record of every other
\* device is as it was (present or absent).
C10_HeartbeatLastWriteWins ==
    [][response'.op = "heartbeat"
       => \E d \in DeviceIds :
             /\ response'.device_id = Given(d)
             /\ d \in DOMAIN device_status'
             /\ device_status'[d] = [status |-> response'.status, last_seen |-> clock']
             /\ DOMAIN device_status' = (DOMAIN device_status) \cup {d}
             /\ \A other \in (DOMAIN device_status) \ {d} :
                   device_status'[other] = device_status[other]
      ]_vars

\* A heartbeat has just overwritten nothing but its own device: the other
\* device keeps an older record.
C10_Witness ==
    /\ response.op = "heartbeat"
    /\ \E d \in DOMAIN device_status, other \in DOMAIN device_status :
          /\ response.device_id = Given(d)
          /\ other # d
          /\ device_status[d].last_seen = clock
          /\ device_status[other].last_seen < clock
          /\ device_status[other].status # device_status[d].status

-----------------------------------------------------------------------------
(* Properties of the whole-system runs *)

\* C7: get_latest_image answers 404 for a device without records and else
\* returns a record of the device that no record of the device exceeds in
\* upload_time; it changes nothing.
C7_LatestSelection ==
    /\ [](\A d \in DeviceIds :
            (response.op = "get_latest_image" /\ response.device_id = Given(d))
            => IF Count(image_metadata, d) = 0
               THEN response.status_code = 404
               ELSE /\ response.status_code = 200
                    /\ \E i \in DOMAIN image_metadata :
                          /\ image_metadata[i].device_id = d
                          /\ image_metadata[i].filename = response.filename
                          /\ image_metadata[i].upload_time = response.upload_time
                    /\ \A i \in DOMAIN image_metadata :
                          image_metadata[i].device_id = d
                          => image_metadata[i].upload_time <= response.upload_time)
    /\ [][response'.op = "get_latest_image"
            => UNCHANGED <<device_status, image_metadata, disk, clock>>]_vars

\* get_latest_image has returned a record that was not the last one inserted
\* for the device: a later insertion has an earlier upload_time.
C7_Witness ==
    \E d \in DeviceIds :
        /\ response.op = "get_latest_image"
        /\ response.device_id = Given(d)
        /\ response.status_code = 200
        /\ LET device_images == DeviceImages(image_metadata, d)
           IN  /\ Len(device_images) >= 2
               /\ device_images[Len(device_images)].upload_time < response.upload_time

\* C8: an upload_image call without a device_id, or with an empty one, is
\* answered 400 and changes neither the ledger, nor the upload directory, nor
\* the registry.
C8_ValidationNoSideEffects ==
    [][(response'.op = "upload_image" /\ response'.device_id \in {Missing, Given(EmptyStr)})
       => /\ response'.status_code = 400
          /\ UNCHANGED <<device_status, image_metadata, disk>>
      ]_vars

\* A rejected upload, with a ledger, an upload directory and a registry that
\* are not empty.
C8_Witness ==
    /\ response.op = "upload_image"
    /\ response.status_code = 400
    /\ image_metadata # << >>
    /\ DOMAIN disk # {}
    /\ DOMAIN device_status # {}

-----------------------------------------------------------------------------
(* Properties of the query runs *)

AtMost(limit, n) == IF limit <= 0 THEN 0 ELSE IF limit < n THEN limit ELSE n

\* C11 (image listing): the body of get_device_images(device_id, limit) holds
\* only records of that device, newest first, and it holds the `limit` most
\* recent of them: as many entries as the limit allows and the device has
\* (none for a limit of zero or less), none of them older than a record that
\* is left out.
C11_ImageListing ==
    response.op = "get_device_images" =>
        LET d == response.device_id[1]
            records == DeviceImages(image_metadata, d)
            shown == response.images
        IN  /\ \A i \in DOMAIN shown :
                  \E r \in Range(records) :
                      /\ r.filename = shown[i].filename
                      /\ r.upload_time = shown[i].upload_time
            /\ \A i, j \in DOMAIN shown :
                  i < j => shown[i].upload_time >= shown[j].upload_time
            /\ Len(shown) = AtMost(response.limit, Len(records))
            /\ \A r \in Range(records) :
                  (\A i \in DOMAIN shown : shown[i].upload_time # r.upload_time)
                      => \A i \in DOMAIN shown : shown[i].upload_time >= r.upload_time

-----------------------------------------------------------------------------
(* Properties of the whole-system runs, continued *)

\* C12 (failed blob write creates no ledger entry): an upload_image whose
\* write of the bytes is refused fails as a whole (500); it appends no record
\* and evicts nothing: ledger and store are as they were before the request.
C12_FailedWriteNoEntry ==
    [][ (response'.op = "upload_image" /\ response'.where = "open")
            => /\ response'.status_code = 500
               /\ response'.filename = << >>
               /\ image_metadata' = image_metadata
               /\ disk' = disk ]_vars

\* a refused write of a file that is already stored and recorded
C12_Witness ==
    /\ response.op = "upload_image"
    /\ response.where = "open"
    /\ image_metadata # << >>
    /\ \E i \in DOMAIN image_metadata :
          image_metadata[i].device_id = response.device_id[1]

-----------------------------------------------------------------------------
(* Properties of the retention runs, continued *)

Occurrences(x, list) == Cardinality({i \in DOMAIN list : list[i] = x})

\* C13 (eviction with an absent blob): every record that the cap enforcement
\* of a returning upload selects, the oldest ones beyond the 20 newest of the
\* device, is removed from the ledger, whether its blob was deleted by this
\* call or was absent already.
C13_EvictionRemovesRecord ==
    [][\A d \in DeviceIds :
         (UploadReturned(d)' /\ Len(AfterAppend(d)) > KEEP)
         => LET all == SortAscending(AfterAppend(d))
                selected == SubSeq(all, 1, Len(all) - KEEP)
            IN  \A i \in DOMAIN selected :
                    Occurrences(selected[i], image_metadata')
                        <= Occurrences(selected[i], all) - Occurrences(selected[i], selected)
      ]_vars

-----------------------------------------------------------------------------
(* Properties of the whole-system runs: reconciliation *)

FilenamesOf(device_id) ==
    { image_metadata[i].filename :
        i \in {j \in DOMAIN image_metadata : image_metadata[j].device_id = device_id} }

\* C14 (reconciliation result): a cleanup_orphaned(device_id) call that returns
\* has deleted exactly the files of the upload directory whose name starts
\* with device_id + "-" and is not the filename of a ledger record of that
\* device, and its removed_count is their number; whether it returns or not,
\* it deletes no file named by a ledger record of that device, changes no
\* file that stays, and leaves the ledger unchanged.
C14_ReconciliationResult ==
    [][\A a \in DeviceIds :
         (response'.op = "cleanup_orphaned" /\ response'.device_id = Given(a))
         => LET deleted == (DOMAIN disk) \ (DOMAIN disk')
                keys == { f \in ListDir(disk, UPLOAD_DIR) :
                            StartsWith(f, a \o <<"-">>) /\ f \notin FilenamesOf(a) }
            IN  /\ image_metadata' = image_metadata
                /\ DOMAIN disk' \subseteq DOMAIN disk
                /\ \A p \in DOMAIN disk' : disk'[p] = disk[p]
                /\ \A f \in FilenamesOf(a) : Join(UPLOAD_DIR, f) \notin deleted
                /\ response'.status_code = 200
                     => /\ deleted = { Join(UPLOAD_DIR, f) : f \in keys }
                        /\ response'.removed_count = Cardinality(deleted)
      ]_vars

\* a call that deleted a file and spared the stored blob of a record of its device
C14_Witness ==
    /\ response.op = "cleanup_orphaned"
    /\ response.status_code = 200
    /\ response.removed_count >= 1
    /\ \E i \in DOMAIN image_metadata :
          /\ image_metadata[i].device_id = response.device_id[1]
          /\ Exists(image_metadata[i].file_path)

\* C15 (non-fatal delete failure): a delete that the OS refuses for a reason
\* other than a missing file does not end upload_image or cleanup_orphaned:
\* no exception of os.remove leaves either handler, so a call whose write was
\* not refused returns its normal response.
C15_DeleteFailureNotFatal ==
    response.op \in {"upload_image", "cleanup_orphaned"}
        => /\ response.where # "os.remove"
           /\ (response.status_code = 500 => response.where = "open")

-----------------------------------------------------------------------------
(* Properties of the lifecycle runs *)

\* C16 (per-device state machine): in every state a heartbeat for any device
\* with any status can be served, and it leaves that device with exactly the
\* status and the time of that heartbeat, whether the device was absent
\* (never seen, or removed by expiry) or present in any state; a device record
\* leaves the registry only in get_devices, and only if it was "offline" and
\* last seen more than 5 minutes before that call; every other handler
\* leaves the registry as it was.
C16_DeviceStateMachine ==
    /\ [](\A d \in DeviceIds, status \in Statuses : ENABLED heartbeat(d, status, clock))
    /\ [][ /\ \A d \in (DOMAIN device_status) \ (DOMAIN device_status') :
                /\ response'.op = "get_devices"
                /\ device_status[d].status = "offline"
                /\ Stale(device_status[d], clock')
           /\ response'.op \notin {"heartbeat", "get_devices"}
                => device_status' = device_status
           /\ response'.op = "heartbeat"
                => /\ response'.status_code = 200
                   /\ device_status'[response'.device_id[1]]
                         = [status |-> response'.status, last_seen |-> clock']
         ]_vars

\* a heartbeat has just created the record of a device, later than any
\* "offline" record can stay through a sweep, next to a stored image
C16_Witness ==
    /\ response.op = "heartbeat"
    /\ clock > BootTime + ExpiryDelta
    /\ DOMAIN device_status = {response.device_id[1]}
    /\ image_metadata # << >>

-----------------------------------------------------------------------------
(* Properties of the query runs, continued *)

-----------------------------------------------------------------------------
(* Properties of the event-loop runs *)

\* C18 (upload atomicity): from the append of an upload_image call to its
\* return, every step taken is a step of that call, so append and cap
\* enforcement are one unit to every other request; a record the call has
\* selected for eviction is still in the ledger when the call comes to it (no
\* other upload has selected and removed it); and no request is answered
\* with more records of the device than the cap, the number an upload leaves
\* on return.
C18_UploadAtomicity ==
    /\ [](/\ \A i \in DOMAIN task.old : task.old[i] \in Range(image_metadata)
          /\ response.op = "get_system_status" => response.total_images <= KEEP
          /\ response.op = "get_device_images" => Len(response.images) <= KEEP)
    /\ [][task.pc # "idle" => task' # task]_vars

\* an upload has appended the record that takes the device above the cap and
\* has selected the oldest record, which it has not yet evicted
C18_Witness ==
    /\ task.pc = "evict"
    /\ task.old # << >>
    /\ Count(image_metadata, task.q[1]) = KEEP + 1

-----------------------------------------------------------------------------
(* Properties of the burst runs *)

\* C19 (upload success postcondition): when upload_image has returned success
\* with a filename, the ledger holds a record of that device with that
\* filename and the upload directory holds a file under that filename.
C19_UploadPostcondition ==
    \A d \in DeviceIds :
        UploadReturned(d)
        => /\ \E i \in DOMAIN image_metadata :
                 /\ image_metadata[i].device_id = d
                 /\ image_metadata[i].filename = response.filename
           /\ Exists(Join(UPLOAD_DIR, response.filename))

NotOf(meta, device_id) == SelectSeq(meta, LAMBDA img : img.device_id # device_id)

\* C20 (cross-device frame of upload): an upload_image call for a device,
\* whatever its outcome, leaves the ledger records of every other device as
\* they were, leaves every stored blob of such a record in place with its
\* bytes, and leaves the registry unchanged.
C20_UploadFrame ==
    [][\A a \in BurstDevices :
         (response'.op = "upload_image" /\ response'.device_id = Given(a))
         => /\ NotOf(image_metadata', a) = NotOf(image_metadata, a)
            /\ \A i \in DOMAIN image_metadata :
                  LET stored == Resolve(image_metadata[i].file_path)
                  IN  (image_metadata[i].device_id # a /\ stored \in DOMAIN disk)
                      => (stored \in DOMAIN disk' /\ disk'[stored] = disk[stored])
            /\ device_status' = device_status
      ]_vars

====
